---- MODULE Spec2Model ----
(***************************************************************************)
(* Capture-and-evaluation pipeline of the recording surfaces:              *)
(*   "IM"  InterviewMode with its child AudioInputComponent                *)
(*   "CFV" ConversationalFeedbackViewer                                    *)
(*   "CFE" ConversationalFeedbackEditor (preview tab)                      *)
(*   "TV"  TranscriptViewer (playback only)                                *)
(* One behaviour follows one mounted surface instance.  The browser side   *)
(* (getUserMedia, MediaRecorder, setInterval, fetch) is the environment:   *)
(* every suspension point of an async handler is a separate action.        *)
(* Props are constant for the life of the instance.  React state setters   *)
(* called after the component has unmounted have no effect.                *)
(* CallSpec follows instead one render of a stored evaluation payload, or  *)
(* one call of registerUserWithBackend, for every input within the bounds. *)
(***************************************************************************)
EXTENDS Integers, Sequences, FiniteSets, TLC

\* ---- bounds -------------------------------------------------------------
MaxSessions == 2        \* getUserMedia calls per surface instance
MaxDur == 2             \* the configured max duration N
MaxElapsed == 3         \* cap on an elapsed count that the code does not clamp
MaxSubmits == 2         \* submissions per surface instance
MaxPlays == 2           \* Audio elements created per surface instance
MaxCriteria == 1        \* criterion entries of a payload
MaxRawScore == 2        \* score of a criterion entry
MaxItems == 1           \* entries of an optional array of a payload
MaxEmailLen == 7        \* characters of user.email
MaxTips == 2            \* entries of actionable_tips whose order is followed
MaxCompletions == 2     \* calls of onComplete followed for one certification
MaxEdits == 3           \* edits of the editor's config that are followed
MaxBackendId == 2       \* id of a backend answer

\* ---- program constants --------------------------------------------------
DefaultMaxDuration == 120

MaxDurations == {MaxDur}
FileData == -1          \* chunk tag of an uploaded file's bytes

VARIABLES
    surface,     \* which surface this behaviour follows
    maxDuration, \* IM/AudioInputComponent prop maxDuration
    sessions,    \* one record per startRecording call (browser side + closure)
    aic,         \* AudioInputComponent state and refs
    im,          \* InterviewMode state
    cfv,         \* ConversationalFeedbackViewer state and refs
    cfe,         \* ConversationalFeedbackEditor preview state and refs
    subs,        \* one record per submission attempt
    urls,        \* object URLs created and not revoked (id = creating session)
    audios,      \* one record per Audio element created (new Audio(url))
    tv,          \* TranscriptViewer state
    call         \* one render of a stored payload, or one call of
                 \* registerUserWithBackend, with its result

vars == <<surface, maxDuration, sessions, aic, im, cfv, cfe, subs, urls,
          audios, tv, call>>

\* ---- blobs --------------------------------------------------------------
\* A Blob is the ordered sequence of its parts.  A part is the id of the
\* session that delivered it (non-empty data), 0 (an empty data event) or
\* FileData.
NullBlob == [isNull |-> TRUE, parts |-> <<>>]
Blob(parts) == [isNull |-> FALSE, parts |-> parts]

RECURSIVE BlobSize(_)
BlobSize(parts) ==
    IF parts = <<>> THEN 0
    ELSE (IF Head(parts) = 0 THEN 0 ELSE 1) + BlobSize(Tail(parts))

\* ---- browser objects ----------------------------------------------------
\* acq:   getUserMedia promise  "pending" | "granted" | "denied"
\* rec:   MediaRecorder         "none" | "recording" | "stopping" (stop()
\*        called; the task that fires dataavailable and then stop is
\*        queued) | "inactive" (ondataavailable and onstop have run)
\* timer: setInterval handle    "none" | "active" | "cleared"
\* report: what the catch of startRecording did with the error, "none" |
\*        "alert" (console.error and alert) | "error" (console.error and the
\*        error state that the surface renders) | "console" (console.error
\*        and nothing the user sees)
NewSession(capIsRecording, capMax) ==
    [acq |-> "pending", rec |-> "none", trackLive |-> FALSE, trackStops |-> 0,
     timer |-> "none", report |-> "none",
     capIsRecording |-> capIsRecording, capMax |-> capMax]

SessionIds == 1..Len(sessions)

\* MediaRecorder.stop(): a recording recorder queues dataavailable and stop
MediaRecorderStop(ss, r) ==
    IF r # 0 /\ ss[r].rec = "recording" THEN [ss EXCEPT ![r].rec = "stopping"]
    ELSE ss

\* clearInterval(handle)
ClearInterval(ss, t) ==
    IF t # 0 /\ ss[t].timer = "active" THEN [ss EXCEPT ![t].timer = "cleared"]
    ELSE ss

\* stream.getTracks().forEach(track => track.stop())
StopTracks(ss, s) ==
    [ss EXCEPT ![s].trackLive = FALSE, ![s].trackStops = @ + 1]

\* new Audio(url) followed by audio.play().  ownUrl: the element plays an
\* object URL that playAudio created for it (and that nothing revokes).
\* emptied: the element was reloaded with an empty src.
\* timeupdate: a task that fires timeupdate at the element is queued and
\* a listener of a mounted component waits for it (the elements of the
\* viewer and of the editor preview have no such listener; the setters a
\* listener calls after the unmount have no effect).
NewAudio(ownUrl) ==
    [playing |-> TRUE, ownUrl |-> ownUrl, emptied |-> FALSE,
     timeupdate |-> FALSE]

\* audio.currentTime as a listener reads it: 0 at the start, 1 for any
\* position past the start.  An element is created playing, so that its
\* position is past the start until a reload sets it back.
AudioCurrentTime(e) == IF e.emptied THEN 0 ELSE 1

AudioIds == 1..Len(audios)

\* element.pause(): an element that is playing is paused and a task that
\* fires timeupdate (and pause) at it is queued; an element that has ended
\* or is paused is left as it is
AudioPause(au, k) ==
    IF k # 0 /\ au[k].playing
    THEN [au EXCEPT ![k].playing = FALSE,
                    ![k].timeupdate = surface \in {"IM", "TV"}]
    ELSE au

\* the component of the listeners unmounts
AudioUnlisten(au) ==
    [k \in 1..Len(au) |-> [au[k] EXCEPT !.timeupdate = FALSE]]

\* element.src = '': the element is reloaded, which pauses it and sets its
\* position to 0, queueing timeupdate when the position changed
AudioLoad(au, k) ==
    IF k # 0
    THEN [au EXCEPT ![k].playing = FALSE, ![k].emptied = TRUE,
                    ![k].timeupdate = @ \/ ~au[k].emptied]
    ELSE au

\* the browser fires timeupdate at element k: the periodic event of an
\* element that plays, or the queued one
AudioTimeupdate(au, k) == [au EXCEPT ![k].timeupdate = FALSE]

\* ---- submissions --------------------------------------------------------
\* One record per call of the async submit handler.
\* pc: the request the call awaits, "upload" | "evaluate" | "analyze", or
\*     "done" once the call has returned
\* blob, file_uuid: the call's parameter and local (gone when it returns)
\* outcome: "pending" | "success" | "failure"
\* completions: calls of the completion callback made by this call
\* stored: the result was stored in the surface state
\* abandoned: the surface was torn down while the call was in flight
NewSubmission(pc, blob) ==
    [pc |-> pc, blob |-> blob, file_uuid |-> "none", outcome |-> "pending",
     abandoned |-> FALSE, completions |-> 0, stored |-> FALSE]

\* the call returns
Return(sub, outcome) ==
    [sub EXCEPT !.pc = "done", !.blob = NullBlob, !.file_uuid = "none",
                !.outcome = outcome]

Abandon(sb) ==
    [i \in 1..Len(sb) |->
        IF sb[i].pc # "done" THEN [sb[i] EXCEPT !.abandoned = TRUE] ELSE sb[i]]

InFlight == {i \in 1..Len(subs) : subs[i].pc # "done"}

\* ======================= AudioInputComponent =============================
AIC_Init ==
    [mounted |-> TRUE, isRecording |-> FALSE, audioBlob |-> NullBlob,
     recordingTime |-> 0, isPlaying |-> FALSE, currentTime |-> 0,
     duration |-> 0, showDeleteConfirmation |-> FALSE,
     mediaRecorderRef |-> 0, audioChunksRef |-> <<>>,
     recordingIntervalRef |-> 0, audioElementRef |-> 0]

\* A handler computes the next component record; state setters of an
\* unmounted component are dropped, writes to refs are not.
AIC_Set(old, new) ==
    IF old.mounted THEN new
    ELSE [old EXCEPT !.mediaRecorderRef = new.mediaRecorderRef,
                     !.audioChunksRef = new.audioChunksRef,
                     !.recordingIntervalRef = new.recordingIntervalRef,
                     !.audioElementRef = new.audioElementRef]

\* startRecording is memoized with deps [maxDuration]; the stopRecording it
\* closes over is the one of the mounting render, whose isRecording is the
\* initial useState(false).
AIC_startRecordingClosureIsRecording == FALSE

\* what the rendered controls allow (isSubmitting is the prop passed by
\* InterviewMode)
AIC_StartEnabled ==
    aic.mounted /\ aic.audioBlob.isNull /\ ~aic.isRecording /\ ~im.isSubmitting
AIC_StopEnabled ==
    aic.mounted /\ aic.audioBlob.isNull /\ aic.isRecording
AIC_UploadEnabled ==
    aic.mounted /\ aic.audioBlob.isNull /\ ~(im.isSubmitting \/ aic.isRecording)
AIC_SubmitEnabled ==
    aic.mounted /\ ~aic.audioBlob.isNull /\ ~im.isSubmitting
AIC_ResetEnabled ==
    aic.mounted /\ ~aic.audioBlob.isNull /\ ~im.isSubmitting
AIC_DeleteEnabled ==
    aic.mounted /\ ~aic.audioBlob.isNull /\ ~im.isSubmitting
AIC_ConfirmEnabled ==
    aic.mounted /\ ~aic.audioBlob.isNull /\ aic.showDeleteConfirmation

\* stopRecording run through a closure whose isRecording is isRec:
\* the component record and the browser objects after the call
AIC_stopRecordingAic(isRec, a) ==
    IF a.mediaRecorderRef # 0 /\ isRec
    THEN [a EXCEPT !.isRecording = FALSE, !.recordingIntervalRef = 0]
    ELSE a
AIC_stopRecordingEnv(isRec, a, ss) ==
    IF a.mediaRecorderRef # 0 /\ isRec
    THEN ClearInterval(MediaRecorderStop(ss, a.mediaRecorderRef),
                       a.recordingIntervalRef)
    ELSE ss

\* unmount cleanup effect
AIC_CleanupAic(a) == [a EXCEPT !.mounted = FALSE, !.audioElementRef = 0]
AIC_CleanupEnv(a, ss) == ClearInterval(ss, a.recordingIntervalRef)
AIC_CleanupAudio(a, au) == AudioUnlisten(AudioPause(au, a.audioElementRef))

\* click on Start Recording: the handler runs up to await getUserMedia
AIC_startRecording ==
    /\ surface = "IM"
    /\ AIC_StartEnabled
    /\ Len(sessions) < MaxSessions
    /\ sessions' = Append(sessions,
           NewSession(AIC_startRecordingClosureIsRecording, maxDuration))
    /\ UNCHANGED <<call, surface, maxDuration, aic, im, cfv, cfe, subs, urls, audios, tv>>

\* getUserMedia settles and startRecording runs to its end
AIC_getUserMediaSettles(s, r) ==
    /\ surface = "IM"
    /\ sessions[s].acq = "pending"
    /\ \/ /\ r = "denied"
          /\ sessions' = [sessions EXCEPT ![s].acq = "denied",
                                          ![s].report = "alert"]
          /\ UNCHANGED aic
       \/ /\ r = "recorderThrows"
          /\ sessions' = [sessions EXCEPT ![s].acq = "granted",
                                          ![s].trackLive = TRUE,
                                          ![s].report = "alert"]
          /\ UNCHANGED aic
       \/ /\ r = "granted"
          /\ sessions' = [sessions EXCEPT ![s].acq = "granted",
                                          ![s].trackLive = TRUE,
                                          ![s].rec = "recording",
                                          ![s].timer = "active"]
          /\ aic' = AIC_Set(aic, [aic EXCEPT !.mediaRecorderRef = s,
                                             !.audioChunksRef = <<>>,
                                             !.isRecording = TRUE,
                                             !.recordingTime = 0,
                                             !.recordingIntervalRef = s])
    /\ UNCHANGED <<call, surface, maxDuration, im, cfv, cfe, subs, urls, audios, tv>>

\* the interval callback without the clamp (return newTime at the ceiling)
AIC_tickUnclamped(s) ==
    /\ surface = "IM"
    /\ sessions[s].timer = "active"
    /\ aic.mounted
    /\ aic.recordingTime < MaxElapsed
    /\ aic' = [aic EXCEPT !.recordingTime = @ + 1]
    /\ UNCHANGED <<call, surface, maxDuration, sessions, im, cfv, cfe, subs, urls,
                   audios, tv>>

\* one callback of the interval created by session s: the updater passed to
\* setRecordingTime, with the stopRecording call it makes at the ceiling
AIC_tick(s) ==
    /\ surface = "IM"
    /\ sessions[s].timer = "active"
    /\ aic.mounted
    /\ LET newTime == aic.recordingTime + 1
           atMax == newTime >= sessions[s].capMax
           seen == sessions[s].capIsRecording
       IN  IF atMax
           THEN /\ aic' = [AIC_stopRecordingAic(seen, aic)
                               EXCEPT !.recordingTime = sessions[s].capMax]
                /\ sessions' = AIC_stopRecordingEnv(seen, aic, sessions)
           ELSE /\ aic' = [aic EXCEPT !.recordingTime = newTime]
                /\ UNCHANGED sessions
    /\ UNCHANGED <<call, surface, maxDuration, im, cfv, cfe, subs, urls, audios, tv>>

\* click on Stop Recording (the handler of the current render)
AIC_stopRecording ==
    /\ surface = "IM"
    /\ AIC_StopEnabled
    /\ aic' = AIC_stopRecordingAic(aic.isRecording, aic)
    /\ sessions' = AIC_stopRecordingEnv(aic.isRecording, aic, sessions)
    /\ UNCHANGED <<call, surface, maxDuration, im, cfv, cfe, subs, urls, audios, tv>>

\* mediaRecorder.ondataavailable: data of size sz from session s
AIC_ondataavailable(a, s, sz) ==
    [a EXCEPT !.audioChunksRef = IF sz > 0 THEN Append(@, s) ELSE @]

\* mediaRecorder.onstop
AIC_onstop(a) ==
    AIC_Set(a, [a EXCEPT !.audioBlob = Blob(a.audioChunksRef)])

\* the task queued by MediaRecorder.stop() for session s runs: it fires
\* dataavailable (data of size sz) and then stop
AIC_recorderStopTask(s, sz) ==
    /\ surface = "IM"
    /\ sessions[s].rec = "stopping"
    /\ aic' = AIC_onstop(AIC_ondataavailable(aic, s, sz))
    /\ sessions' = StopTracks([sessions EXCEPT ![s].rec = "inactive"], s)
    /\ UNCHANGED <<call, surface, maxDuration, im, cfv, cfe, subs, urls, audios, tv>>

\* the play / pause button: onClick={isPlaying ? pauseAudio : playAudio}
AIC_PlayEnabled ==
    aic.mounted /\ ~aic.audioBlob.isNull /\ ~im.isSubmitting

AIC_playAudio ==
    /\ surface = "IM"
    /\ AIC_PlayEnabled /\ ~aic.isPlaying
    /\ Len(audios) < MaxPlays
    /\ audios' = Append(audios, NewAudio(TRUE))
    /\ aic' = [aic EXCEPT !.audioElementRef = Len(audios) + 1,
                          !.isPlaying = TRUE]
    /\ UNCHANGED <<call, surface, maxDuration, sessions, im, cfv, cfe, subs, urls, tv>>

\* pauseAudio that resets isPlaying and leaves the element playing
AIC_pauseAudioStateOnly ==
    /\ surface = "IM"
    /\ AIC_PlayEnabled /\ aic.isPlaying
    /\ aic' = [aic EXCEPT !.isPlaying = FALSE]
    /\ UNCHANGED <<call, surface, maxDuration, sessions, im, cfv, cfe, subs, urls,
                   audios, tv>>

AIC_pauseAudio ==
    /\ surface = "IM"
    /\ AIC_PlayEnabled /\ aic.isPlaying
    /\ IF aic.audioElementRef # 0
       THEN /\ audios' = AudioPause(audios, aic.audioElementRef)
            /\ aic' = [aic EXCEPT !.isPlaying = FALSE]
       ELSE UNCHANGED <<audios, aic>>
    /\ UNCHANGED <<call, surface, maxDuration, sessions, im, cfv, cfe, subs, urls, tv>>

\* an 'ended' listener that also resets the elapsed recording time
AIC_onendedResetsTime(k) ==
    /\ surface = "IM"
    /\ audios[k].playing
    /\ audios' = [audios EXCEPT ![k].playing = FALSE]
    /\ aic' = AIC_Set(aic, [aic EXCEPT !.isPlaying = FALSE, !.currentTime = 0,
                                       !.recordingTime = 0,
                                       !.audioElementRef = 0])
    /\ UNCHANGED <<call, surface, maxDuration, sessions, im, cfv, cfe, subs, urls, tv>>

\* element k plays to its end: its 'ended' listener runs
AIC_onended(k) ==
    /\ surface = "IM"
    /\ audios[k].playing
    /\ audios' = [audios EXCEPT ![k].playing = FALSE]
    /\ aic' = AIC_Set(aic, [aic EXCEPT !.isPlaying = FALSE, !.currentTime = 0,
                                       !.audioElementRef = 0])
    /\ UNCHANGED <<call, surface, maxDuration, sessions, im, cfv, cfe, subs, urls, tv>>

\* the 'timeupdate' listener of element k runs
AIC_ontimeupdate(k) ==
    /\ surface = "IM"
    /\ aic.mounted
    /\ audios[k].playing \/ audios[k].timeupdate
    /\ audios' = AudioTimeupdate(audios, k)
    /\ aic' = AIC_Set(aic, [aic EXCEPT !.currentTime = AudioCurrentTime(audios[k])])
    /\ UNCHANGED <<call, surface, maxDuration, sessions, im, cfv, cfe, subs, urls, tv>>

\* a file of an audio type is chosen (any other file changes nothing)
AIC_handleFileUpload ==
    /\ surface = "IM"
    /\ AIC_UploadEnabled
    /\ aic' = [aic EXCEPT !.audioBlob = Blob(<<FileData>>),
                          !.recordingTime = 0]
    /\ UNCHANGED <<call, surface, maxDuration, sessions, im, cfv, cfe, subs, urls, audios, tv>>

AIC_handleReset ==
    /\ surface = "IM"
    /\ AIC_ResetEnabled
    /\ aic' = [aic EXCEPT !.audioBlob = NullBlob, !.recordingTime = 0,
                          !.isPlaying = FALSE, !.currentTime = 0,
                          !.duration = 0, !.audioElementRef = 0]
    /\ audios' = AudioPause(audios, aic.audioElementRef)
    /\ UNCHANGED <<call, surface, maxDuration, sessions, im, cfv, cfe, subs, urls, tv>>

AIC_handleDeleteClick ==
    /\ surface = "IM"
    /\ AIC_DeleteEnabled
    /\ ~aic.showDeleteConfirmation
    /\ aic' = [aic EXCEPT !.showDeleteConfirmation = TRUE]
    /\ UNCHANGED <<call, surface, maxDuration, sessions, im, cfv, cfe, subs, urls, audios, tv>>

AIC_confirmDelete ==
    /\ surface = "IM"
    /\ AIC_ConfirmEnabled
    /\ aic' = [aic EXCEPT !.isPlaying = IF @ /\ aic.audioElementRef # 0
                                        THEN FALSE ELSE @,
                          !.audioBlob = NullBlob, !.recordingTime = 0,
                          !.currentTime = 0, !.duration = 0,
                          !.showDeleteConfirmation = FALSE]
    \* pause() when playing, then src = ''
    /\ audios' = AudioLoad(IF aic.isPlaying
                           THEN AudioPause(audios, aic.audioElementRef)
                           ELSE audios, aic.audioElementRef)
    /\ UNCHANGED <<call, surface, maxDuration, sessions, im, cfv, cfe, subs, urls, tv>>

AIC_cancelDelete ==
    /\ surface = "IM"
    /\ AIC_ConfirmEnabled
    /\ aic' = [aic EXCEPT !.showDeleteConfirmation = FALSE]
    /\ UNCHANGED <<call, surface, maxDuration, sessions, im, cfv, cfe, subs, urls, audios, tv>>

\* ============================ InterviewMode ==============================
\* evaluation: "null" | "wellformed" | "malformed" (the stored payload)
IM_Init ==
    [mounted |-> TRUE, isSubmitting |-> FALSE, evaluation |-> "null",
     audioBlob |-> NullBlob]

IM_Set(old, new) == IF old.mounted THEN new ELSE old

\* InterviewMode keeps isSubmitting, evaluation and audioBlob and nothing
\* else: no state of it holds an error, and its render shows none.
IM_ErrorShown == FALSE

\* Submit button of AudioInputComponent: handleSubmit calls onAudioSubmit,
\* i.e. handleAudioSubmit, which runs up to the await of the upload fetch
AIC_handleSubmit ==
    /\ surface = "IM"
    /\ AIC_SubmitEnabled
    /\ Len(subs) < MaxSubmits
    /\ im' = IM_Set(im, [im EXCEPT !.isSubmitting = TRUE,
                                   !.audioBlob = aic.audioBlob])
    /\ subs' = Append(subs, NewSubmission("upload", aic.audioBlob))
    /\ UNCHANGED <<call, surface, maxDuration, sessions, aic, cfv, cfe, urls, audios, tv>>

\* handleAudioSubmit without its finally block
IM_failWithoutFinally(i) ==
    /\ subs' = [subs EXCEPT ![i] = Return(@, "failure")]
    /\ UNCHANGED <<im, aic, sessions, audios>>

\* catch + finally of handleAudioSubmit
IM_fail(i) ==
    /\ subs' = [subs EXCEPT ![i] = Return(@, "failure")]
    /\ im' = IM_Set(im, [im EXCEPT !.isSubmitting = FALSE])
    /\ UNCHANGED <<aic, sessions, audios>>

\* the upload request of attempt i settles (fetch and response.json())
IM_uploadSettles(i, r) ==
    /\ surface = "IM"
    /\ subs[i].pc = "upload"
    /\ \/ /\ r \in {"throw", "notOk"}
          /\ IM_fail(i)
       \/ /\ r \in {"ok", "okNoUuid"}
          /\ subs' = [subs EXCEPT ![i].pc = "evaluate",
                         ![i].file_uuid =
                             IF r = "ok" THEN "uuid" ELSE "undefined"]
          /\ UNCHANGED <<im, aic, sessions, audios>>
    /\ UNCHANGED <<call, surface, maxDuration, cfv, cfe, urls, tv>>

\* the evaluate request of attempt i settles
IM_evaluateSettles(i, r) ==
    /\ surface = "IM"
    /\ subs[i].pc = "evaluate"
    /\ \/ /\ r \in {"throw", "notOk"}
          /\ IM_fail(i)
       \/ /\ r \in {"wellformed", "malformed"}
          /\ im' = IM_Set(im, [im EXCEPT !.evaluation = r,
                                         !.isSubmitting = FALSE])
          /\ subs' = [subs EXCEPT ![i] =
                         [Return(@, "success") EXCEPT !.stored = im.mounted,
                                                      !.completions = @ + 1]]
          \* with evaluation set, AudioInputComponent leaves the tree
          /\ aic' = IF im.mounted /\ aic.mounted THEN AIC_CleanupAic(aic)
                    ELSE aic
          /\ sessions' = IF im.mounted /\ aic.mounted
                         THEN AIC_CleanupEnv(aic, sessions) ELSE sessions
          /\ audios' = IF im.mounted /\ aic.mounted
                       THEN AIC_CleanupAudio(aic, audios) ELSE audios
    /\ UNCHANGED <<call, surface, maxDuration, cfv, cfe, urls, tv>>

\* the parent removes InterviewMode (navigation)
IM_unmount ==
    /\ surface = "IM"
    /\ im.mounted
    /\ im' = [im EXCEPT !.mounted = FALSE]
    /\ aic' = IF aic.mounted THEN AIC_CleanupAic(aic) ELSE aic
    /\ sessions' = IF aic.mounted THEN AIC_CleanupEnv(aic, sessions)
                   ELSE sessions
    /\ audios' = IF aic.mounted THEN AIC_CleanupAudio(aic, audios) ELSE audios
    /\ subs' = Abandon(subs)
    /\ UNCHANGED <<call, surface, maxDuration, cfv, cfe, urls, tv>>

IM_Next ==
    \/ AIC_startRecording
    \/ \E s \in SessionIds, r \in {"denied", "recorderThrows", "granted"} :
          AIC_getUserMediaSettles(s, r)
    \/ \E s \in SessionIds : AIC_tick(s)
    \/ AIC_stopRecording
    \/ \E s \in SessionIds, sz \in 0..1 : AIC_recorderStopTask(s, sz)
    \/ AIC_playAudio
    \/ AIC_pauseAudio
    \/ \E k \in AudioIds : AIC_onended(k)
    \/ \E k \in AudioIds : AIC_ontimeupdate(k)
    \/ AIC_handleFileUpload
    \/ AIC_handleReset
    \/ AIC_handleDeleteClick
    \/ AIC_confirmDelete
    \/ AIC_cancelDelete
    \/ AIC_handleSubmit
    \/ \E i \in 1..Len(subs), r \in {"throw", "notOk", "ok", "okNoUuid"} :
          IM_uploadSettles(i, r)
    \/ \E i \in 1..Len(subs),
          r \in {"throw", "notOk", "wellformed", "malformed"} :
          IM_evaluateSettles(i, r)
    \/ IM_unmount

\* =================== ConversationalFeedbackViewer =======================
\* Learner view: the props viewOnly and isAdminView keep their default false,
\* onMarkComplete is supplied.
\* config: [isNull, maxDuration]; error: "null" or the message shown;
\* feedback: "null" | "wellformed" | "malformed" (the stored payload)
NullConfig == [isNull |-> TRUE, maxDuration |-> 0]
Config(n) == [isNull |-> FALSE, maxDuration |-> n]

CFV_Init ==
    [mounted |-> TRUE, config |-> NullConfig, isLoading |-> TRUE,
     error |-> "null", isRecording |-> FALSE, audioBlob |-> NullBlob,
     recordingDuration |-> 0, isPlaying |-> FALSE, isProcessing |-> FALSE,
     feedback |-> "null", isSubmitted |-> FALSE,
     mediaRecorderRef |-> 0, audioRef |-> 0, recordingIntervalRef |-> 0,
     audioUrlRef |-> 0]

CFV_Set(old, new) ==
    IF old.mounted THEN new
    ELSE [old EXCEPT !.mediaRecorderRef = new.mediaRecorderRef,
                     !.audioRef = new.audioRef,
                     !.recordingIntervalRef = new.recordingIntervalRef,
                     !.audioUrlRef = new.audioUrlRef]

\* config?.maxDuration || 120
CFV_EffectiveMax(c) ==
    IF ~c.isNull /\ c.maxDuration # 0 THEN c.maxDuration ELSE DefaultMaxDuration

\* the early returns of the render: loading spinner, error screen, no config
CFV_Rendered ==
    cfv.mounted /\ ~cfv.isLoading /\ cfv.error = "null" /\ ~cfv.config.isNull
CFV_StartEnabled ==
    CFV_Rendered /\ ~cfv.isSubmitted /\ ~cfv.isRecording /\ cfv.audioBlob.isNull
CFV_StopEnabled ==
    CFV_Rendered /\ ~cfv.isSubmitted /\ cfv.isRecording
CFV_DeleteEnabled ==
    \/ CFV_Rendered /\ ~cfv.isSubmitted /\ ~cfv.audioBlob.isNull
                    /\ ~cfv.isRecording
    \/ CFV_Rendered /\ cfv.feedback # "null" /\ cfv.isSubmitted
CFV_SubmitEnabled ==
    CFV_Rendered /\ ~cfv.isSubmitted /\ ~cfv.audioBlob.isNull
                 /\ ~cfv.isRecording /\ ~cfv.isProcessing

\* loadTaskConfig settles (learner view): the task with its configuration,
\* or a failure (request failed, or no conversational_feedback_config)
CFV_loadTaskConfigSettles(r) ==
    /\ surface = "CFV"
    /\ cfv.isLoading
    /\ cfv.mounted
    /\ \/ /\ r = "ok"
          /\ \E n \in MaxDurations :
                cfv' = [cfv EXCEPT !.config = Config(n), !.isLoading = FALSE]
       \/ /\ r = "fail"
          /\ cfv' = [cfv EXCEPT !.error = "Failed to load task",
                                !.isLoading = FALSE]
    /\ UNCHANGED <<call, surface, maxDuration, sessions, aic, im, cfe, subs, urls, audios, tv>>

CFV_stopRecordingCfv(isRec, c) ==
    IF c.mediaRecorderRef # 0 /\ isRec
    THEN CFV_Set(c, [c EXCEPT !.isRecording = FALSE])
    ELSE c
CFV_stopRecordingEnv(isRec, c, ss) ==
    IF c.mediaRecorderRef # 0 /\ isRec
    THEN ClearInterval(MediaRecorderStop(ss, c.mediaRecorderRef),
                       c.recordingIntervalRef)
    ELSE ss

\* click on Start Recording: the handler of the current render runs up to
\* await getUserMedia; its closure holds this render's isRecording and config
CFV_startRecording ==
    /\ surface = "CFV"
    /\ CFV_StartEnabled
    /\ Len(sessions) < MaxSessions
    /\ sessions' = Append(sessions,
           NewSession(cfv.isRecording, CFV_EffectiveMax(cfv.config)))
    /\ UNCHANGED <<call, surface, maxDuration, aic, im, cfv, cfe, subs, urls, audios, tv>>

CFV_getUserMediaSettles(s, r) ==
    /\ surface = "CFV"
    /\ sessions[s].acq = "pending"
    /\ \/ /\ r = "denied"
          /\ sessions' = [sessions EXCEPT ![s].acq = "denied",
                             ![s].report = IF cfv.mounted THEN "error"
                                           ELSE "console"]
          /\ cfv' = CFV_Set(cfv, [cfv EXCEPT !.error =
                                      "Failed to start recording"])
       \/ /\ r = "recorderThrows"
          /\ sessions' = [sessions EXCEPT ![s].acq = "granted",
                             ![s].trackLive = TRUE,
                             ![s].report = IF cfv.mounted THEN "error"
                                           ELSE "console"]
          /\ cfv' = CFV_Set(cfv, [cfv EXCEPT !.error =
                                      "Failed to start recording"])
       \/ /\ r = "granted"
          /\ sessions' = [sessions EXCEPT ![s].acq = "granted",
                                          ![s].trackLive = TRUE,
                                          ![s].rec = "recording",
                                          ![s].timer = "active"]
          /\ cfv' = CFV_Set(cfv, [cfv EXCEPT !.mediaRecorderRef = s,
                                             !.isRecording = TRUE,
                                             !.recordingDuration = 0,
                                             !.recordingIntervalRef = s])
    /\ UNCHANGED <<call, surface, maxDuration, aic, im, cfe, subs, urls, audios, tv>>

\* one callback of the interval created by session s
CFV_tick(s) ==
    /\ surface = "CFV"
    /\ sessions[s].timer = "active"
    /\ cfv.mounted
    /\ cfv.recordingDuration < MaxElapsed
    /\ LET newDuration == cfv.recordingDuration + 1
           atMax == newDuration >= sessions[s].capMax
           seen == sessions[s].capIsRecording
       IN  IF atMax
           THEN /\ cfv' = [CFV_stopRecordingCfv(seen, cfv)
                               EXCEPT !.recordingDuration = newDuration]
                /\ sessions' = CFV_stopRecordingEnv(seen, cfv, sessions)
           ELSE /\ cfv' = [cfv EXCEPT !.recordingDuration = newDuration]
                /\ UNCHANGED sessions
    /\ UNCHANGED <<call, surface, maxDuration, aic, im, cfe, subs, urls, audios, tv>>

CFV_stopRecording ==
    /\ surface = "CFV"
    /\ CFV_StopEnabled
    /\ cfv' = CFV_stopRecordingCfv(cfv.isRecording, cfv)
    /\ sessions' = CFV_stopRecordingEnv(cfv.isRecording, cfv, sessions)
    /\ UNCHANGED <<call, surface, maxDuration, aic, im, cfe, subs, urls, audios, tv>>

\* the task queued by MediaRecorder.stop() for session s: ondataavailable
\* pushes the data (of size sz) to the session's own audioChunks, onstop
\* builds the blob, replaces the object URL and stops the tracks
CFV_recorderStopTask(s, sz) ==
    /\ surface = "CFV"
    /\ sessions[s].rec = "stopping"
    /\ cfv' = CFV_Set(cfv, [cfv EXCEPT
                  !.audioBlob = Blob(<<IF sz > 0 THEN s ELSE 0>>),
                  !.audioUrlRef = s])
    /\ urls' = (urls \ {cfv.audioUrlRef}) \cup {s}
    /\ sessions' = StopTracks([sessions EXCEPT ![s].rec = "inactive"], s)
    /\ UNCHANGED <<call, surface, maxDuration, aic, im, cfe, subs, audios, tv>>

\* the play / pause button: onClick={isPlaying ? pauseAudio : playAudio}
CFV_PlayEnabled ==
    CFV_Rendered /\ ~cfv.isSubmitted /\ ~cfv.audioBlob.isNull
                 /\ ~cfv.isRecording

\* playAudio: pauses the element it holds, then plays a new one
CFV_playAudio ==
    /\ surface = "CFV"
    /\ CFV_PlayEnabled /\ ~cfv.isPlaying
    /\ Len(audios) < MaxPlays
    /\ IF cfv.audioUrlRef # 0
       THEN /\ audios' = Append(AudioPause(audios, cfv.audioRef),
                                NewAudio(FALSE))
            /\ cfv' = [cfv EXCEPT !.audioRef = Len(audios) + 1,
                                  !.isPlaying = TRUE]
       ELSE UNCHANGED <<audios, cfv>>
    /\ UNCHANGED <<call, surface, maxDuration, sessions, aic, im, cfe, subs, urls, tv>>

CFV_pauseAudio ==
    /\ surface = "CFV"
    /\ CFV_PlayEnabled /\ cfv.isPlaying
    /\ IF cfv.audioRef # 0
       THEN /\ audios' = AudioPause(audios, cfv.audioRef)
            /\ cfv' = [cfv EXCEPT !.isPlaying = FALSE]
       ELSE UNCHANGED <<audios, cfv>>
    /\ UNCHANGED <<call, surface, maxDuration, sessions, aic, im, cfe, subs, urls, tv>>

\* element k plays to its end: audio.onended
CFV_onended(k) ==
    /\ surface = "CFV"
    /\ audios[k].playing
    /\ audios' = [audios EXCEPT ![k].playing = FALSE]
    /\ cfv' = CFV_Set(cfv, [cfv EXCEPT !.isPlaying = FALSE])
    /\ UNCHANGED <<call, surface, maxDuration, sessions, aic, im, cfe, subs, urls, tv>>

\* Record Again / Record Another Response
CFV_deleteRecording ==
    /\ surface = "CFV"
    /\ CFV_DeleteEnabled
    /\ cfv' = [cfv EXCEPT !.audioBlob = NullBlob, !.recordingDuration = 0,
                          !.isPlaying = FALSE, !.feedback = "null",
                          !.isSubmitted = FALSE, !.audioUrlRef = 0,
                          !.audioRef = 0]
    /\ urls' = urls \ {cfv.audioUrlRef}
    /\ audios' = AudioPause(audios, cfv.audioRef)
    /\ UNCHANGED <<call, surface, maxDuration, sessions, aic, im, cfe, subs, tv>>

\* Submit for Feedback: runs up to the await of the analyze fetch
CFV_submitRecording ==
    /\ surface = "CFV"
    /\ CFV_SubmitEnabled
    /\ ~cfv.audioBlob.isNull /\ ~cfv.config.isNull
    /\ Len(subs) < MaxSubmits
    /\ cfv' = [cfv EXCEPT !.isProcessing = TRUE]
    /\ subs' = Append(subs, NewSubmission("analyze", cfv.audioBlob))
    /\ UNCHANGED <<call, surface, maxDuration, sessions, aic, im, cfe, urls, audios, tv>>

\* the analyze request of attempt i settles
CFV_analyzeSettles(i, r) ==
    /\ surface = "CFV"
    /\ subs[i].pc = "analyze"
    /\ \/ /\ r \in {"throw", "notOk"}
          /\ subs' = [subs EXCEPT ![i] = Return(@, "failure")]
          /\ cfv' = CFV_Set(cfv, [cfv EXCEPT
                        !.error = "Failed to process your recording",
                        !.isProcessing = FALSE])
       \/ /\ r \in {"wellformed", "malformed"}
          /\ subs' = [subs EXCEPT ![i] =
                         [Return(@, "success") EXCEPT !.stored = cfv.mounted,
                                                      !.completions = @ + 1]]
          /\ cfv' = CFV_Set(cfv, [cfv EXCEPT !.feedback = r,
                                             !.isSubmitted = TRUE,
                                             !.isProcessing = FALSE])
    /\ UNCHANGED <<call, surface, maxDuration, sessions, aic, im, cfe, urls, audios, tv>>

\* unmount: the cleanup effect
CFV_unmount ==
    /\ surface = "CFV"
    /\ cfv.mounted
    /\ cfv' = [cfv EXCEPT !.mounted = FALSE]
    /\ urls' = urls \ {cfv.audioUrlRef}
    /\ sessions' = ClearInterval(sessions, cfv.recordingIntervalRef)
    /\ subs' = Abandon(subs)
    /\ UNCHANGED <<call, surface, maxDuration, aic, im, cfe, audios, tv>>

CFV_Next ==
    \/ \E r \in {"ok", "fail"} : CFV_loadTaskConfigSettles(r)
    \/ CFV_startRecording
    \/ \E s \in SessionIds, r \in {"denied", "recorderThrows", "granted"} :
          CFV_getUserMediaSettles(s, r)
    \/ \E s \in SessionIds : CFV_tick(s)
    \/ CFV_stopRecording
    \/ \E s \in SessionIds, sz \in 0..1 : CFV_recorderStopTask(s, sz)
    \/ CFV_playAudio
    \/ CFV_pauseAudio
    \/ \E k \in AudioIds : CFV_onended(k)
    \/ CFV_deleteRecording
    \/ CFV_submitRecording
    \/ \E i \in 1..Len(subs),
          r \in {"throw", "notOk", "wellformed", "malformed"} :
          CFV_analyzeSettles(i, r)
    \/ CFV_unmount

\* ============== ConversationalFeedbackEditor (preview tab) ===============
\* The editor is shown with its Preview tab active and a loaded config.
CFE_Init(n) ==
    [mounted |-> TRUE, config |-> Config(n), isRecording |-> FALSE,
     audioBlob |-> NullBlob, recordingDuration |-> 0, isPlaying |-> FALSE,
     mediaRecorderRef |-> 0, audioRef |-> 0, recordingIntervalRef |-> 0,
     audioUrlRef |-> 0]

CFE_Set(old, new) ==
    IF old.mounted THEN new
    ELSE [old EXCEPT !.mediaRecorderRef = new.mediaRecorderRef,
                     !.audioRef = new.audioRef,
                     !.recordingIntervalRef = new.recordingIntervalRef,
                     !.audioUrlRef = new.audioUrlRef]

\* Start Recording (no blob) or Record Again (blob kept)
CFE_StartEnabled == cfe.mounted /\ ~cfe.isRecording
CFE_StopEnabled == cfe.mounted /\ cfe.isRecording
CFE_DeleteEnabled == cfe.mounted /\ ~cfe.audioBlob.isNull /\ ~cfe.isRecording

CFE_stopRecordingCfe(isRec, c) ==
    IF c.mediaRecorderRef # 0 /\ isRec
    THEN CFE_Set(c, [c EXCEPT !.isRecording = FALSE])
    ELSE c
CFE_stopRecordingEnv(isRec, c, ss) ==
    IF c.mediaRecorderRef # 0 /\ isRec
    THEN ClearInterval(MediaRecorderStop(ss, c.mediaRecorderRef),
                       c.recordingIntervalRef)
    ELSE ss

CFE_startRecording ==
    /\ surface = "CFE"
    /\ CFE_StartEnabled
    /\ Len(sessions) < MaxSessions
    /\ sessions' = Append(sessions,
           NewSession(cfe.isRecording, cfe.config.maxDuration))
    /\ UNCHANGED <<call, surface, maxDuration, aic, im, cfv, cfe, subs, urls, audios, tv>>

CFE_getUserMediaSettles(s, r) ==
    /\ surface = "CFE"
    /\ sessions[s].acq = "pending"
    /\ \/ /\ r = "denied"
          /\ sessions' = [sessions EXCEPT ![s].acq = "denied",
                                          ![s].report = "console"]
          /\ UNCHANGED cfe
       \/ /\ r = "recorderThrows"
          /\ sessions' = [sessions EXCEPT ![s].acq = "granted",
                                          ![s].trackLive = TRUE,
                                          ![s].report = "console"]
          /\ UNCHANGED cfe
       \/ /\ r = "granted"
          /\ sessions' = [sessions EXCEPT ![s].acq = "granted",
                                          ![s].trackLive = TRUE,
                                          ![s].rec = "recording",
                                          ![s].timer = "active"]
          /\ cfe' = CFE_Set(cfe, [cfe EXCEPT !.mediaRecorderRef = s,
                                             !.isRecording = TRUE,
                                             !.recordingDuration = 0,
                                             !.recordingIntervalRef = s])
    /\ UNCHANGED <<call, surface, maxDuration, aic, im, cfv, subs, urls, audios, tv>>

CFE_tick(s) ==
    /\ surface = "CFE"
    /\ sessions[s].timer = "active"
    /\ cfe.mounted
    /\ cfe.recordingDuration < MaxElapsed
    /\ LET newDuration == cfe.recordingDuration + 1
           atMax == newDuration >= sessions[s].capMax
           seen == sessions[s].capIsRecording
       IN  IF atMax
           THEN /\ cfe' = [CFE_stopRecordingCfe(seen, cfe)
                               EXCEPT !.recordingDuration = newDuration]
                /\ sessions' = CFE_stopRecordingEnv(seen, cfe, sessions)
           ELSE /\ cfe' = [cfe EXCEPT !.recordingDuration = newDuration]
                /\ UNCHANGED sessions
    /\ UNCHANGED <<call, surface, maxDuration, aic, im, cfv, subs, urls, audios, tv>>

CFE_stopRecording ==
    /\ surface = "CFE"
    /\ CFE_StopEnabled
    /\ cfe' = CFE_stopRecordingCfe(cfe.isRecording, cfe)
    /\ sessions' = CFE_stopRecordingEnv(cfe.isRecording, cfe, sessions)
    /\ UNCHANGED <<call, surface, maxDuration, aic, im, cfv, subs, urls, audios, tv>>

CFE_recorderStopTask(s, sz) ==
    /\ surface = "CFE"
    /\ sessions[s].rec = "stopping"
    /\ cfe' = CFE_Set(cfe, [cfe EXCEPT
                  !.audioBlob = Blob(<<IF sz > 0 THEN s ELSE 0>>),
                  !.audioUrlRef = s])
    /\ urls' = (urls \ {cfe.audioUrlRef}) \cup {s}
    /\ sessions' = StopTracks([sessions EXCEPT ![s].rec = "inactive"], s)
    /\ UNCHANGED <<call, surface, maxDuration, aic, im, cfv, subs, audios, tv>>

\* the play / pause button: onClick={isPlaying ? pauseAudio : playAudio}
CFE_PlayEnabled == cfe.mounted /\ ~cfe.audioBlob.isNull /\ ~cfe.isRecording

\* playAudio: pauses the element it holds, then plays a new one
CFE_playAudio ==
    /\ surface = "CFE"
    /\ CFE_PlayEnabled /\ ~cfe.isPlaying
    /\ Len(audios) < MaxPlays
    /\ IF cfe.audioUrlRef # 0
       THEN /\ audios' = Append(AudioPause(audios, cfe.audioRef),
                                NewAudio(FALSE))
            /\ cfe' = [cfe EXCEPT !.audioRef = Len(audios) + 1,
                                  !.isPlaying = TRUE]
       ELSE UNCHANGED <<audios, cfe>>
    /\ UNCHANGED <<call, surface, maxDuration, sessions, aic, im, cfv, subs, urls, tv>>

CFE_pauseAudio ==
    /\ surface = "CFE"
    /\ CFE_PlayEnabled /\ cfe.isPlaying
    /\ IF cfe.audioRef # 0
       THEN /\ audios' = AudioPause(audios, cfe.audioRef)
            /\ cfe' = [cfe EXCEPT !.isPlaying = FALSE]
       ELSE UNCHANGED <<audios, cfe>>
    /\ UNCHANGED <<call, surface, maxDuration, sessions, aic, im, cfv, subs, urls, tv>>

\* element k plays to its end: audio.onended
CFE_onended(k) ==
    /\ surface = "CFE"
    /\ audios[k].playing
    /\ audios' = [audios EXCEPT ![k].playing = FALSE]
    /\ cfe' = CFE_Set(cfe, [cfe EXCEPT !.isPlaying = FALSE])
    /\ UNCHANGED <<call, surface, maxDuration, sessions, aic, im, cfv, subs, urls, tv>>

CFE_deleteRecording ==
    /\ surface = "CFE"
    /\ CFE_DeleteEnabled
    /\ cfe' = [cfe EXCEPT !.audioBlob = NullBlob, !.recordingDuration = 0,
                          !.isPlaying = FALSE, !.audioUrlRef = 0,
                          !.audioRef = 0]
    /\ urls' = urls \ {cfe.audioUrlRef}
    /\ audios' = AudioPause(audios, cfe.audioRef)
    /\ UNCHANGED <<call, surface, maxDuration, sessions, aic, im, cfv, subs, tv>>

\* unmount: the cleanup effect (revokes the URL only)
CFE_unmount ==
    /\ surface = "CFE"
    /\ cfe.mounted
    /\ cfe' = [cfe EXCEPT !.mounted = FALSE]
    /\ urls' = urls \ {cfe.audioUrlRef}
    /\ UNCHANGED <<call, surface, maxDuration, sessions, aic, im, cfv, subs, audios, tv>>

CFE_Next ==
    \/ CFE_startRecording
    \/ \E s \in SessionIds, r \in {"denied", "recorderThrows", "granted"} :
          CFE_getUserMediaSettles(s, r)
    \/ \E s \in SessionIds : CFE_tick(s)
    \/ CFE_stopRecording
    \/ \E s \in SessionIds, sz \in 0..1 : CFE_recorderStopTask(s, sz)
    \/ CFE_playAudio
    \/ CFE_pauseAudio
    \/ \E k \in AudioIds : CFE_onended(k)
    \/ CFE_deleteRecording
    \/ CFE_unmount

\* ========================== TranscriptViewer ============================
\* Rendered with the audioBlob prop of a recorded answer.  audioElement is
\* the state holding the element (0: null).  The component has no cleanup
\* effect.
TV_Init ==
    [mounted |-> TRUE, audioBlob |-> Blob(<<FileData>>), isPlaying |-> FALSE,
     currentTime |-> 0, audioElement |-> 0]

TV_Set(old, new) == IF old.mounted THEN new ELSE old

\* the Play / Pause Audio button
TV_handlePlayPause ==
    /\ surface = "TV"
    /\ tv.mounted /\ ~tv.audioBlob.isNull
    /\ IF tv.audioElement = 0
       THEN /\ Len(audios) < MaxPlays
            /\ audios' = Append(audios, NewAudio(TRUE))
            /\ tv' = [tv EXCEPT !.audioElement = Len(audios) + 1,
                                !.isPlaying = TRUE]
       ELSE IF tv.isPlaying
       THEN /\ audios' = AudioPause(audios, tv.audioElement)
            /\ tv' = [tv EXCEPT !.isPlaying = FALSE]
       ELSE /\ audios' = [audios EXCEPT ![tv.audioElement].playing = TRUE]
            /\ tv' = [tv EXCEPT !.isPlaying = TRUE]
    /\ UNCHANGED <<call, surface, maxDuration, sessions, aic, im, cfv, cfe, subs, urls>>

\* element k plays to its end: its 'ended' listener runs
TV_onended(k) ==
    /\ surface = "TV"
    /\ audios[k].playing
    /\ audios' = [audios EXCEPT ![k].playing = FALSE]
    /\ tv' = TV_Set(tv, [tv EXCEPT !.isPlaying = FALSE])
    /\ UNCHANGED <<call, surface, maxDuration, sessions, aic, im, cfv, cfe, subs, urls>>

\* the 'timeupdate' listener of element k runs
TV_ontimeupdate(k) ==
    /\ surface = "TV"
    /\ tv.mounted
    /\ audios[k].playing \/ audios[k].timeupdate
    /\ audios' = AudioTimeupdate(audios, k)
    /\ tv' = TV_Set(tv, [tv EXCEPT !.currentTime = AudioCurrentTime(audios[k])])
    /\ UNCHANGED <<call, surface, maxDuration, sessions, aic, im, cfv, cfe, subs, urls>>

\* the parent removes TranscriptViewer
TV_unmount ==
    /\ surface = "TV"
    /\ tv.mounted
    /\ tv' = [tv EXCEPT !.mounted = FALSE]
    /\ audios' = AudioUnlisten(audios)
    /\ UNCHANGED <<call, surface, maxDuration, sessions, aic, im, cfv, cfe, subs, urls>>

TV_Next ==
    \/ TV_handlePlayPause
    \/ \E k \in AudioIds : TV_onended(k)
    \/ \E k \in AudioIds : TV_ontimeupdate(k)
    \/ TV_unmount

\* ======================= evaluation presentation =========================
\* A raw criterion entry of a 2xx payload; has*: the key is present.
\* InterviewEvaluation.scores[i]: {criterion, score, feedback,
\* transcript_references}
CriterionShape(score, feedback) ==
    [hasCriterion |-> TRUE, hasName |-> FALSE, score |-> score,
     hasMaxScore |-> FALSE, maxScore |-> 0, feedback |-> feedback]
\* FeedbackResult.feedback.criteriaScores[i]: {name, score, maxScore,
\* feedback}, also with maxScore left out
NameShape(score, hasMaxScore, maxScore, feedback) ==
    [hasCriterion |-> FALSE, hasName |-> TRUE, score |-> score,
     hasMaxScore |-> hasMaxScore, maxScore |-> maxScore,
     feedback |-> feedback]

\* an optional array of a payload with n entries, and one that is left out
Present(n) == [present |-> TRUE, n |-> n]
Absent == [present |-> FALSE, n |-> 0]

\* what a component shows for one criterion entry: the score, the maximum
\* after the slash (hasMax: one is shown) and the feedback text
Shown(score, hasMax, max, feedback) ==
    [threw |-> FALSE, score |-> score, hasMax |-> hasMax, max |-> max,
     feedback |-> feedback]
\* the render of the entry throws a TypeError
Thrown == [threw |-> TRUE, score |-> 0, hasMax |-> FALSE, max |-> 0,
           feedback |-> ""]

\* RubricScorecard, one entry of scores.map: getCriterionLabel calls
\* criterion.toLowerCase(), the score is shown as {score.score}/5
RubricScorecard_entry(e) ==
    IF ~e.hasCriterion THEN Thrown
    ELSE Shown(e.score, TRUE, 5, e.feedback)

\* RubricScorecard: no scores, or every entry of scores
RubricScorecard(scores) ==
    IF ~scores.present \/ scores.items = <<>> THEN <<>>
    ELSE [i \in 1..Len(scores.items) |-> RubricScorecard_entry(scores.items[i])]

\* ActionableTips: !tips.length, then tips.map
ActionableTips(tips) ==
    IF ~tips.present THEN [threw |-> TRUE, n |-> 0]
    ELSE [threw |-> FALSE, n |-> tips.n]

\* ConversationalFeedbackViewer, one entry of criteriaScores.map:
\* {criterion.score}/{criterion.maxScore}
CFV_criterion(e) == Shown(e.score, e.hasMaxScore, e.maxScore, e.feedback)

\* array.map of an optional array in JSX
MapOf(a) == IF ~a.present THEN [threw |-> TRUE, n |-> 0]
            ELSE [threw |-> FALSE, n |-> a.n]

\* InterviewMode, Results Display of the stored evaluation
IM_ResultsDisplay(evaluation) ==
    LET rubric == RubricScorecard(evaluation.scores)
        tips == ActionableTips(evaluation.actionable_tips)
    IN  [threw |-> \/ ~evaluation.speech_analysis
                   \/ tips.threw
                   \/ \E i \in 1..Len(rubric) : rubric[i].threw,
         criteria |-> rubric,
         tips |-> tips.n]

\* ConversationalFeedbackViewer, Feedback Section of the stored feedback
CFV_FeedbackSection(feedback) ==
    LET strengths == MapOf(feedback.strengths)
        improvements == MapOf(feedback.improvements)
        deliverySuggestions == MapOf(feedback.deliverySuggestions)
    IN  [threw |-> \/ strengths.threw \/ improvements.threw
                   \/ deliverySuggestions.threw,
         criteria |-> [i \in 1..Len(feedback.criteriaScores.items) |->
                          CFV_criterion(feedback.criteriaScores.items[i])],
         strengths |-> strengths.n,
         improvements |-> improvements.n,
         deliverySuggestions |-> deliverySuggestions.n]

\* the payloads a backend can answer with
RawScores == 0..MaxRawScore
Feedbacks == {"", "text"}
Entries ==
    {CriterionShape(sc, f) : sc \in RawScores, f \in Feedbacks}
    \cup {NameShape(sc, FALSE, 0, f) : sc \in RawScores, f \in Feedbacks}
    \cup {NameShape(sc, TRUE, m, f) :
              sc \in RawScores, m \in {5, 10}, f \in Feedbacks}
EntryLists ==
    UNION {[1..n -> Entries] : n \in 0..MaxCriteria}
Optionals == {Absent} \cup {Present(n) : n \in 0..MaxItems}
Evaluations ==
    {[scores |-> [present |-> TRUE, items |-> l], actionable_tips |-> t,
      speech_analysis |-> sp] :
        l \in EntryLists, t \in Optionals, sp \in BOOLEAN}
    \cup {[scores |-> [present |-> FALSE, items |-> <<>>],
           actionable_tips |-> t, speech_analysis |-> sp] :
             t \in Optionals, sp \in BOOLEAN}
FeedbackResults ==
    {[criteriaScores |-> [present |-> TRUE, items |-> l], strengths |-> st,
      improvements |-> im_, deliverySuggestions |-> ds] :
        l \in EntryLists, st \in Optionals, im_ \in Optionals,
        ds \in Optionals}

NoCall == [fn |-> "none", pc |-> "done"]
\* the result of a call that has not returned
Pending == [threw |-> FALSE]

\* React renders InterviewMode with the evaluation that was stored
IM_render ==
    /\ call.fn = "InterviewMode" /\ call.pc = "render"
    /\ call' = [call EXCEPT !.pc = "done",
                            !.res = IM_ResultsDisplay(call.arg)]
    /\ UNCHANGED <<surface, maxDuration, sessions, aic, im, cfv, cfe, subs,
                   urls, audios, tv>>

\* React renders the viewer with the feedback that was stored
CFV_render ==
    /\ call.fn = "ConversationalFeedbackViewer" /\ call.pc = "render"
    /\ call' = [call EXCEPT !.pc = "done",
                            !.res = CFV_FeedbackSection(call.arg)]
    /\ UNCHANGED <<surface, maxDuration, sessions, aic, im, cfv, cfe, subs,
                   urls, audios, tv>>

\* ------------------------- order of the tips -----------------------------
\* getPriorityLabel(priority)
getPriorityLabel(priority) ==
    CASE priority = 1 -> "High Priority"
      [] priority = 2 -> "Medium Priority"
      [] priority = 3 -> "Low Priority"
      [] OTHER -> "Priority"

\* tips.map((tip, index) => ...): one card per tip, in the order of the array
ActionableTips_cards(tips) ==
    [index \in 1..Len(tips) |->
        [priority |-> tips[index], label |-> getPriorityLabel(tips[index])]]

\* actionable_tips of a payload as the sequence of the tips' priorities
Priorities == 1..3
TipLists == UNION {[1..n -> Priorities] : n \in 0..MaxTips}

\* React renders ActionableTips with evaluation.actionable_tips as stored
ActionableTips_render ==
    /\ call.fn = "ActionableTips" /\ call.pc = "render"
    /\ call' = [call EXCEPT !.pc = "done",
                            !.res = ActionableTips_cards(call.arg)]
    /\ UNCHANGED <<surface, maxDuration, sessions, aic, im, cfv, cfe, subs,
                   urls, audios, tv>>

\* ============ ConversationalFeedbackEditor: the configuration ===========
\* A criterion is {name, description, maxScore}; a config is {maxDuration,
\* prompt, rubric: {name, criteria}}. The blocks of a prompt are one token.
Criterion(name, description, maxScore) ==
    [name |-> name, description |-> description, maxScore |-> maxScore]

\* the initial value of the config state
CFE_DefaultConfig ==
    [maxDuration |-> DefaultMaxDuration,
     prompt |-> "Record Your Response",
     rubric |->
        [name |-> "Speech Assessment Rubric",
         criteria |->
            <<Criterion("Clarity",
                        "How clear and understandable is the speech", 4),
              Criterion("Content Quality",
                        "Relevance and depth of the response content", 4),
              Criterion("Organization",
                        "Logical structure and flow of ideas", 4),
              Criterion("Delivery",
                        "Pace, tone, and overall presentation quality", 4)>>]]

\* the optional prop initialConfig: left out, or a config of the parent
Undefined == [defined |-> FALSE, value |-> CFE_DefaultConfig]
Defined(value) == [defined |-> TRUE, value |-> value]
InitialConfigs ==
    {Undefined, Defined(CFE_DefaultConfig)}
    \cup {Defined([maxDuration |-> 60, prompt |-> "Introduce yourself",
                   rubric |-> [name |-> "Interview Rubric",
                               criteria |-> cs]]) :
             cs \in {<<>>, <<Criterion("Fluency", "Speaks without long pauses", 5)>>}}

\* JSON.stringify(value): undefined for undefined, else the text of the
\* object, which is one text per value as the keys keep their order
JSON_stringify(v) == IF v.defined THEN [defined |-> TRUE, text |-> v.value]
                     ELSE [defined |-> FALSE, text |-> CFE_DefaultConfig]
\* a !== b of two results of JSON.stringify
StrictNotEqual(a, b) ==
    \/ a.defined # b.defined
    \/ a.defined /\ b.defined /\ a.text # b.text

\* hasChanges of the imperative handle
CFE_hasChanges(c) ==
    StrictNotEqual(JSON_stringify(Defined(c.config)),
                   JSON_stringify(c.initialConfig))

\* handleConfigChange: setConfig(newConfig); if (onChange) onChange(newConfig)
handleConfigChange(c, newConfig) ==
    [c EXCEPT !.config = newConfig,
              !.onChangeCalls = IF c.hasOnChange THEN @ + 1 ELSE @,
              !.reported = IF c.hasOnChange THEN newConfig ELSE @,
              !.edits = @ + 1,
              !.res = [asked |-> FALSE, value |-> FALSE]]
\* handleRubricChange
handleRubricChange(c, rubric) ==
    handleConfigChange(c, [c.config EXCEPT !.rubric = rubric])

\* array.filter((_, i) => i !== index), i counted from at
RECURSIVE FilterIndex(_, _, _)
FilterIndex(array, index, at) ==
    IF array = <<>> THEN <<>>
    ELSE (IF at # index THEN <<Head(array)>> ELSE <<>>)
         \o FilterIndex(Tail(array), index, at + 1)
\* removeCriterion that removes every criterion named as the one at index
removeCriterionByName(c, index) ==
    LET criteria == c.config.rubric.criteria
    IN  handleRubricChange(c,
            [c.config.rubric EXCEPT
                !.criteria = SelectSeq(criteria,
                    LAMBDA x : x.name # criteria[index + 1].name)])

\* addCriterion
addCriterion(c) ==
    LET newCriterion ==
            Criterion("New Criterion", "Description of this criterion", 4)
    IN  handleRubricChange(c,
            [c.config.rubric EXCEPT !.criteria = Append(@, newCriterion)])
\* updateCriterion: newCriteria[index] = criterion (index from 0)
updateCriterion(c, index, criterion) ==
    handleRubricChange(c,
        [c.config.rubric EXCEPT !.criteria[index + 1] = criterion])
\* removeCriterion (index from 0)
removeCriterion(c, index) ==
    handleRubricChange(c,
        [c.config.rubric EXCEPT
            !.criteria = FilterIndex(c.config.rubric.criteria, index, 0)])

\* the rubric tab of the mounted editor takes one more edit
CFE_Editable ==
    /\ call.fn = "ConversationalFeedbackEditor" /\ call.pc = "ready"
    /\ call.edits < MaxEdits
\* the indices of the rendered criteria
CriterionIndices ==
    IF call.fn = "ConversationalFeedbackEditor"
    THEN 0..(Len(call.config.rubric.criteria) - 1) ELSE {}
\* the criteria the inputs of row index can pass to updateCriterion
CriterionEdits(index) ==
    LET criterion == call.config.rubric.criteria[index + 1]
    IN  {[criterion EXCEPT !.name = "Pace"],
         [criterion EXCEPT !.maxScore = 5]}

\* the effect of [initialConfig] after the mount
CFE_initialConfigEffect ==
    /\ call.fn = "ConversationalFeedbackEditor" /\ call.pc = "mount"
    /\ call' = [call EXCEPT
                   !.pc = "ready",
                   !.config = IF call.initialConfig.defined
                              THEN call.initialConfig.value ELSE @]
    /\ UNCHANGED <<surface, maxDuration, sessions, aic, im, cfv, cfe, subs,
                   urls, audios, tv>>

CFE_addCriterion ==
    /\ CFE_Editable
    /\ call' = addCriterion(call)
    /\ UNCHANGED <<surface, maxDuration, sessions, aic, im, cfv, cfe, subs,
                   urls, audios, tv>>

CFE_updateCriterion(index, criterion) ==
    /\ CFE_Editable
    /\ index \in CriterionIndices
    /\ criterion \in CriterionEdits(index)
    /\ call' = updateCriterion(call, index, criterion)
    /\ UNCHANGED <<surface, maxDuration, sessions, aic, im, cfv, cfe, subs,
                   urls, audios, tv>>

CFE_removeCriterion(index) ==
    /\ CFE_Editable
    /\ index \in CriterionIndices
    /\ call' = removeCriterion(call, index)
    /\ UNCHANGED <<surface, maxDuration, sessions, aic, im, cfv, cfe, subs,
                   urls, audios, tv>>

CFE_handleMaxDurationChange(duration) ==
    /\ CFE_Editable
    /\ call' = handleConfigChange(call,
                   [call.config EXCEPT !.maxDuration = duration])
    /\ UNCHANGED <<surface, maxDuration, sessions, aic, im, cfv, cfe, subs,
                   urls, audios, tv>>

CFE_handlePromptChange(content) ==
    /\ CFE_Editable
    /\ call' = handleConfigChange(call, [call.config EXCEPT !.prompt = content])
    /\ UNCHANGED <<surface, maxDuration, sessions, aic, im, cfv, cfe, subs,
                   urls, audios, tv>>

\* the parent calls hasChanges() of the handle
CFE_callHasChanges ==
    /\ call.fn = "ConversationalFeedbackEditor" /\ call.pc = "ready"
    /\ ~call.res.asked
    /\ call' = [call EXCEPT !.res = [asked |-> TRUE,
                                     value |-> CFE_hasChanges(call)]]
    /\ UNCHANGED <<surface, maxDuration, sessions, aic, im, cfv, cfe, subs,
                   urls, audios, tv>>

\* ==================== UnderstandingCertification ========================
\* call, for a certification that is shown:
\*   pc: "mount" before the first effect, "mounted", "unmounted"
\*   certified: certification.certified; timer: the 5 s timeout is pending;
\*   completions: calls of onComplete so far
\* What the parent does inside onComplete is not part of the component: it
\* keeps the component as it is, re-renders it with a new onComplete, or
\* unmounts it.
ParentReactions == {"keep", "rerender", "unmount"}

\* the effect of [certification.certified, onComplete]: its cleanup clears
\* the timeout, its body sets one when certified
UC_effect(c) == [c EXCEPT !.timer = c.certified]
UC_cleanup(c) == [c EXCEPT !.timer = FALSE]

\* onComplete() returns and React commits what the parent did
UC_afterComplete(c, p) ==
    LET called == [c EXCEPT !.completions = @ + 1]
    IN  CASE p = "keep" -> called
          [] p = "rerender" -> UC_effect(UC_cleanup(called))
          [] p = "unmount" -> [UC_cleanup(called) EXCEPT !.pc = "unmounted"]

\* the component is mounted and its effect runs
UC_mount ==
    /\ call.fn = "UnderstandingCertification" /\ call.pc = "mount"
    /\ call' = UC_effect([call EXCEPT !.pc = "mounted"])
    /\ UNCHANGED <<surface, maxDuration, sessions, aic, im, cfv, cfe, subs,
                   urls, audios, tv>>

\* the timeout fires: setShowAnimation(false); onComplete()
UC_timeout(p) ==
    /\ call.fn = "UnderstandingCertification" /\ call.pc = "mounted"
    /\ call.timer
    /\ call.completions < MaxCompletions
    /\ call' = UC_afterComplete([call EXCEPT !.timer = FALSE], p)
    /\ UNCHANGED <<surface, maxDuration, sessions, aic, im, cfv, cfe, subs,
                   urls, audios, tv>>

\* 'Continue Learning', rendered when certified: setShowAnimation(false);
\* onComplete()
UC_onClick(p) ==
    /\ call.fn = "UnderstandingCertification" /\ call.pc = "mounted"
    /\ call.certified
    /\ call.completions < MaxCompletions
    /\ call' = UC_afterComplete(call, p)
    /\ UNCHANGED <<surface, maxDuration, sessions, aic, im, cfv, cfe, subs,
                   urls, audios, tv>>

\* the parent unmounts the component: the cleanup of the effect runs
UC_unmount ==
    /\ call.fn = "UnderstandingCertification" /\ call.pc = "mounted"
    /\ call' = [UC_cleanup(call) EXCEPT !.pc = "unmounted"]
    /\ UNCHANGED <<surface, maxDuration, sessions, aic, im, cfv, cfe, subs,
                   urls, audios, tv>>

\* ====================== registerUserWithBackend =========================
\* a JSON value: null, or an object whose id is absent, null or a number
JsonNull == [json |-> "null", id |-> "absent", n |-> 0]
JsonObject(id, n) == [json |-> "object", id |-> id, n |-> n]
\* a body that response.json() cannot parse
NotJson == [json |-> "none", id |-> "absent", n |-> 0]

\* user.email as the sequence of its char codes; <<>> is an email that is
\* empty or absent
EmailChars == {64, 122}
Emails == UNION {[1..n -> EmailChars] : n \in 0..MaxEmailLen}
Bodies == {NotJson, JsonNull, JsonObject("absent", 0), JsonObject("null", 0)}
          \cup {JsonObject("number", n) : n \in 0..MaxBackendId}

\* The hash is a JavaScript number: an integer that the doubles hold
\* exactly, wider than 32 bits. It is kept as hi * 65536 + lo with lo in
\* 0..65535, so that no intermediate value leaves the model checker's
\* integers.
Wide(hi, lo) == [hi |-> hi + (lo \div 65536), lo |-> lo % 65536]
WideNegative(h) == h.hi < 0
\* the number is an int32
WideIsInt32(h) == h.hi \in -32768..32767

\* hash << 5: ToInt32(hash), shifted left by 5 within 32 bits
Shl5(h) ==
    LET lo == h.lo * 32
        hi == ((h.hi % 65536) * 32 + (lo \div 65536)) % 65536
    IN  Wide(IF hi >= 32768 THEN hi - 65536 ELSE hi, lo % 65536)

\* user.email.split('').reduce((hash, char) => ..., 0):
\* ((hash << 5) - hash) + char.charCodeAt(0), the - and + on numbers
RECURSIVE EmailHash(_, _)
EmailHash(hash, email) ==
    IF email = <<>> THEN hash
    ELSE LET shifted == Shl5(hash)
         IN  EmailHash(Wide(shifted.hi - hash.hi,
                            (shifted.lo - hash.lo) + Head(email)),
                       Tail(email))

\* h % m of JavaScript: the remainder has the sign of the dividend
JsRemainder(h, m) ==
    LET abs == IF WideNegative(h) THEN Wide(-h.hi, -h.lo) ELSE h
        r == (((((abs.hi * 256) % m) * 256) % m) + abs.lo) % m
    IN  IF WideNegative(h) THEN -r ELSE r

\* emailHash % 1000000 without Math.abs
FallbackIdSigned(email) == JsRemainder(EmailHash(Wide(0, 0), email), 1000000)

\* Math.abs(emailHash % 1000000)
FallbackId(email) ==
    LET r == JsRemainder(EmailHash(Wide(0, 0), email), 1000000)
    IN  IF r < 0 THEN -r ELSE r

Returned(value) == [threw |-> FALSE, value |-> value]
Propagated == [threw |-> TRUE, value |-> JsonNull]

\* the catch block rethrows
registerUserWithBackend_catchRethrows(user) == Propagated

\* the catch block
registerUserWithBackend_catch(user) ==
    IF user.email # <<>>
    THEN Returned(JsonObject("number", FallbackId(user.email)))
    ELSE Returned(JsonObject("null", 0))

\* fetch settles: it rejects, or resolves with a response
registerUserWithBackend_fetchSettles(r) ==
    /\ call.fn = "registerUserWithBackend" /\ call.pc = "fetch"
    /\ call' = IF r = "throw"
               THEN [call EXCEPT !.pc = "done", !.http = r,
                                 !.res = registerUserWithBackend_catch(call.arg)]
               ELSE [call EXCEPT !.pc = IF r = "ok" THEN "json" ELSE "text",
                                 !.http = r]
    /\ UNCHANGED <<surface, maxDuration, sessions, aic, im, cfv, cfe, subs,
                   urls, audios, tv>>

\* response.text() of a non-2xx response settles; the handler throws
registerUserWithBackend_textSettles(r) ==
    /\ call.fn = "registerUserWithBackend" /\ call.pc = "text"
    /\ r \in {"text", "throw"}
    /\ call' = [call EXCEPT !.pc = "done",
                            !.res = registerUserWithBackend_catch(call.arg)]
    /\ UNCHANGED <<surface, maxDuration, sessions, aic, im, cfv, cfe, subs,
                   urls, audios, tv>>

\* response.json() of a 2xx response settles: it rejects for a body that
\* is not JSON; data.id throws for null
registerUserWithBackend_jsonSettles(body) ==
    /\ call.fn = "registerUserWithBackend" /\ call.pc = "json"
    /\ call' = [call EXCEPT
                   !.pc = "done", !.body = body,
                   !.res = IF body \in {NotJson, JsonNull}
                           THEN registerUserWithBackend_catch(call.arg)
                           ELSE Returned(body)]
    /\ UNCHANGED <<surface, maxDuration, sessions, aic, im, cfv, cfe, subs,
                   urls, audios, tv>>

\* ============================== system ===================================
Init ==
    /\ surface \in {"IM", "CFV", "CFE", "TV"}
    /\ maxDuration \in MaxDurations
    /\ sessions = <<>>
    /\ aic = AIC_Init
    /\ im = IM_Init
    /\ cfv = CFV_Init
    /\ \E n \in MaxDurations : cfe = CFE_Init(n)
    /\ subs = <<>>
    /\ urls = {}
    /\ audios = <<>>
    /\ tv = TV_Init
    /\ call = NoCall

Next == IM_Next \/ CFV_Next \/ CFE_Next \/ TV_Next

Spec == Init /\ [][Next]_vars

\* One render of a stored payload or of a list of tips, one call of
\* registerUserWithBackend, one mounted editor whose config is edited, or
\* one shown certification, for every payload, user, backend answer,
\* initialConfig and parent within the bounds; no recording surface is
\* followed.
CallInit ==
    /\ surface = "none"
    /\ maxDuration = MaxDur
    /\ sessions = <<>>
    /\ aic = AIC_Init
    /\ im = IM_Init
    /\ cfv = CFV_Init
    /\ cfe = CFE_Init(MaxDur)
    /\ subs = <<>>
    /\ urls = {}
    /\ audios = <<>>
    /\ tv = TV_Init
    /\ \/ \E e \in Evaluations :
             call = [fn |-> "InterviewMode", pc |-> "render", arg |-> e,
                     res |-> Pending]
       \/ \E f \in FeedbackResults :
             call = [fn |-> "ConversationalFeedbackViewer", pc |-> "render",
                     arg |-> f, res |-> Pending]
       \/ \E email \in Emails :
             call = [fn |-> "registerUserWithBackend", pc |-> "fetch",
                     arg |-> [email |-> email], http |-> "none",
                     body |-> NotJson, res |-> Pending]
       \/ \E initialConfig \in InitialConfigs, hasOnChange \in BOOLEAN :
             call = [fn |-> "ConversationalFeedbackEditor", pc |-> "mount",
                     initialConfig |-> initialConfig,
                     hasOnChange |-> hasOnChange,
                     config |-> CFE_DefaultConfig,
                     onChangeCalls |-> 0, reported |-> CFE_DefaultConfig,
                     edits |-> 0,
                     res |-> [asked |-> FALSE, value |-> FALSE]]
       \/ \E certified \in BOOLEAN :
             call = [fn |-> "UnderstandingCertification", pc |-> "mount",
                     certified |-> certified, timer |-> FALSE,
                     completions |-> 0]
       \/ \E tips \in TipLists :
             call = [fn |-> "ActionableTips", pc |-> "render", arg |-> tips,
                     res |-> <<>>]

CallNext ==
    \/ IM_render
    \/ CFV_render
    \/ \E r \in {"throw", "notOk", "ok"} :
          registerUserWithBackend_fetchSettles(r)
    \/ \E r \in {"text", "throw"} : registerUserWithBackend_textSettles(r)
    \/ \E body \in Bodies : registerUserWithBackend_jsonSettles(body)
    \/ ActionableTips_render
    \/ CFE_initialConfigEffect
    \/ CFE_addCriterion
    \/ \E index \in CriterionIndices :
          \/ CFE_removeCriterion(index)
          \/ \E criterion \in CriterionEdits(index) :
                CFE_updateCriterion(index, criterion)
    \/ CFE_handleMaxDurationChange(60)
    \/ CFE_handlePromptChange("Describe your project")
    \/ CFE_callHasChanges
    \/ UC_mount
    \/ \E p \in ParentReactions : UC_timeout(p)
    \/ \E p \in ParentReactions : UC_onClick(p)
    \/ UC_unmount

CallSpec == CallInit /\ [][CallNext]_vars

\* ============================ properties =================================
\* the recording component of the followed surface
\* (TranscriptViewer records nothing: the AudioInputComponent record, which
\* no step of that surface touches)
Rec == CASE surface = "IM" -> aic [] surface = "CFV" -> cfv
         [] surface = "CFE" -> cfe [] OTHER -> aic
Elapsed == IF surface = "IM" THEN aic.recordingTime ELSE Rec.recordingDuration
\* the component that owns the submission
SubmitterMounted == IF surface = "IM" THEN im.mounted ELSE cfv.mounted
SubmitEnabled == IF surface = "IM" THEN AIC_SubmitEnabled ELSE CFV_SubmitEnabled
DiscardEnabled == IF surface = "IM" THEN AIC_ResetEnabled ELSE CFV_DeleteEnabled
Evaluated == IF surface = "IM" THEN im.evaluation # "null" ELSE cfv.isSubmitted
ErrorShown == IF surface = "IM" THEN IM_ErrorShown ELSE cfv.error # "null"
\* attempt i resolves with a failure in this step
FailsNow(i) == subs[i].outcome = "pending" /\ subs'[i].outcome = "failure"

\* C1: a recording that is not stopped by hand is stopped by its timer when
\* the elapsed count reaches the configured maximum N: no recorder is still
\* recording under a running timer with the count at N, and the count never
\* exceeds N.
C1_AutoStopAtMax ==
    \A s \in SessionIds :
        sessions[s].rec = "recording" /\ sessions[s].timer = "active"
            => Elapsed < sessions[s].capMax

\* C2: once the recording component is torn down no microphone track is
\* still live under a recorder that nothing has stopped, and no stream has
\* its tracks stopped more than once.
C2_TracksReleasedAfterTeardown ==
    /\ ~Rec.mounted =>
           \A s \in SessionIds :
               ~(sessions[s].trackLive /\ sessions[s].rec = "recording")
    /\ \A s \in SessionIds : sessions[s].trackStops <= 1

\* C3: the first stop to reach the session stops the recorder, also when it
\* is the timer's (the count reaches the maximum captured by the timer of the
\* session the surface is recording); no stream is released twice.
C3_FirstStopWins ==
    [][ /\ \A s \in SessionIds :
              ( /\ Rec.isRecording /\ Rec.mediaRecorderRef = s
                /\ sessions[s].rec = "recording" /\ sessions[s].timer = "active"
                /\ Elapsed' > Elapsed /\ Elapsed' >= sessions[s].capMax )
              => sessions'[s].rec # "recording"
        /\ \A s \in SessionIds : sessions'[s].trackStops <= 1 ]_vars

\* C4: at most one microphone stream, one recording MediaRecorder and one
\* ticking timer are live per surface.
C4_OneLiveSession ==
    /\ Cardinality({s \in SessionIds : sessions[s].trackLive}) <= 1
    /\ Cardinality({s \in SessionIds : sessions[s].rec = "recording"}) <= 1
    /\ Cardinality({s \in SessionIds : sessions[s].timer = "active"}) <= 1

\* C5: an acquisition that completes after the surface was torn down, or
\* after the pending session was replaced by an artifact (file upload), is
\* ignored: no recorder is started, no timer is created, no stream stays live.
C5_LateAcquisitionIgnored ==
    [][ \A s \in SessionIds :
          ( /\ sessions[s].acq = "pending" /\ sessions'[s].acq = "granted"
            /\ (~Rec.mounted \/ ~Rec.audioBlob.isNull) )
          => ( /\ sessions'[s].rec = "none" /\ sessions'[s].timer = "none"
               /\ ~sessions'[s].trackLive ) ]_vars

\* C6: the resolution of a submission that was in flight when the surface
\* was torn down is ignored: it stores nothing and calls no completion
\* callback.
C6_AbandonedSubmissionIgnored ==
    \A i \in 1..Len(subs) :
        subs[i].abandoned => subs[i].completions = 0 /\ ~subs[i].stored

\* C7: while a submission is in flight no second one is started; when none
\* is in flight any more and the surface still holds the artifact of an
\* earlier attempt (it is not Evaluated), a new submit is accepted.
C7_OneSubmissionAtATime ==
    /\ Cardinality(InFlight) <= 1
    /\ ( /\ subs # <<>> /\ InFlight = {} /\ SubmitterMounted /\ ~Evaluated
         /\ ~Rec.audioBlob.isNull /\ ~Rec.isRecording )
       => SubmitEnabled

\* C8: an artifact of zero bytes is never sent: no upload, evaluate or
\* analyze request is in flight for an empty blob.
C8_EmptyRecordingNotSent ==
    \A i \in InFlight : BlobSize(subs[i].blob.parts) > 0

\* C9: a submission that fails on a mounted surface leaves the surface
\* showing an error.
C9_FailureShowsError ==
    [][ \A i \in 1..Len(subs) :
          FailsNow(i) /\ SubmitterMounted => ErrorShown' ]_vars

\* C10: after a failed submission the artifact is still there and both the
\* submit and the discard control are enabled.
C10_RetryAfterFailure ==
    [][ \A i \in 1..Len(subs) :
          FailsNow(i) /\ SubmitterMounted /\ ~Rec.audioBlob.isNull
          => ~Rec.audioBlob'.isNull /\ SubmitEnabled' /\ DiscardEnabled' ]_vars

\* the component that holds the artifact and the playback elements
Holder == IF surface = "TV" THEN tv ELSE Rec
StartEnabled ==
    CASE surface = "IM" -> AIC_StartEnabled [] surface = "CFV" -> CFV_StartEnabled
      [] surface = "CFE" -> CFE_StartEnabled [] OTHER -> FALSE
\* the submitting flag
Submitting == IF surface = "IM" THEN im.isSubmitting ELSE cfv.isProcessing
\* no other session than s is pending, recording or ticking
Alone(s) ==
    \A o \in SessionIds \ {s} :
        /\ sessions[o].acq # "pending"
        /\ sessions[o].rec \in {"none", "inactive"}
        /\ sessions[o].timer # "active"
\* getUserMedia of session s rejects in this step
DeniedNow(s) == sessions[s].acq = "pending" /\ sessions'[s].acq = "denied"
Playing == {k \in AudioIds : audios[k].playing}

\* C11: when getUserMedia rejects on a mounted surface the error is reported
\* to the user (an alert or a rendered error) and the attempt leaves the
\* session idle: not recording, no recorder, timer or stream of the attempt,
\* no artifact produced.
C11_DeniedAcquisitionReportedIdle ==
    [][ \A s \in SessionIds :
          DeniedNow(s) /\ Rec.mounted /\ Alone(s)
          => /\ sessions'[s].report \in {"alert", "error"}
             /\ ~Rec'.isRecording
             /\ Rec'.audioBlob = Rec.audioBlob
             /\ sessions'[s].rec = "none" /\ sessions'[s].timer = "none"
             /\ ~sessions'[s].trackLive ]_vars

\* C12: after a failed acquisition the start control that was enabled before
\* the failure is enabled again, and the failure itself starts no new
\* attempt.
C12_StartAgainAfterDenied ==
    [][ \A s \in SessionIds :
          DeniedNow(s) /\ StartEnabled
          => StartEnabled' /\ Len(sessions') = Len(sessions) ]_vars

\* C13: a startRecording that failed (its catch ran) leaves no live track,
\* also when the stream had been acquired before the failure.
C13_FailedStartReleasesStream ==
    \A s \in SessionIds :
        sessions[s].report # "none" => ~sessions[s].trackLive

\* C14: a malformed 2xx payload is never stored as the evaluation or the
\* feedback of the surface.
C14_MalformedEvaluationRejected ==
    im.evaluation # "malformed" /\ cfv.feedback # "malformed"

C17_ObjectUrlsRevoked ==
    ~Holder.mounted \/ Holder.audioBlob.isNull
        => urls = {} /\ \A k \in AudioIds : ~audios[k].ownUrl

\* C18: after the teardown of a recording surface no interval of the surface
\* is active and no audio element of the surface is playing.
C18_TeardownHaltsTimersAndAudio ==
    surface # "TV" /\ ~Rec.mounted
        => /\ \A s \in SessionIds : sessions[s].timer # "active"
           /\ Playing = {}

\* C19: in AudioInputComponent recordingTime is at most maxDuration.
C19_RecordingTimeClamped == aic.recordingTime <= maxDuration

C19_Witness ==
    /\ aic.recordingTime = maxDuration
    /\ \E s \in SessionIds :
          sessions[s].timer = "active" /\ sessions[s].rec = "recording"

\* C20: in the viewer and in the editor preview recordingDuration is at most
\* the configured max duration (120 when the viewer has none).
C20_RecordingDurationClamped ==
    /\ cfv.recordingDuration <= CFV_EffectiveMax(cfv.config)
    /\ cfe.recordingDuration <= cfe.config.maxDuration

\* some MediaRecorder of the surface is recording
Recording == \E s \in SessionIds : sessions[s].rec = "recording"
NoActiveTimer == \A s \in SessionIds : sessions[s].timer # "active"
\* the playback position the surface holds (the viewer holds none)
Position == IF surface = "IM" THEN aic.currentTime ELSE 0
\* the surface holds no evaluation of a recording
NoEvaluation ==
    IF surface = "IM" THEN im.evaluation = "null"
    ELSE cfv.feedback = "null" /\ ~cfv.isSubmitted
\* Idle with everything released: no artifact, not recording, elapsed time
\* and position zero, nothing playing, no evaluation
IdleReleased ==
    /\ Rec.audioBlob.isNull /\ ~Rec.isRecording
    /\ Elapsed = 0 /\ Position = 0
    /\ Playing = {}
    /\ NoEvaluation

\* C21: an Evaluated surface stays Evaluated in every step but the one of
\* 'record another', and that step leaves the surface Idle with the prior
\* session discarded.
C21_EvaluatedLeftOnlyByRecordAnother ==
    [][ (Evaluated /\ ~Evaluated') => (SubmitterMounted /\ IdleReleased') ]_vars

\* the session was stopped and nothing has been started since: the surface
\* is mounted and not recording, some recorder was stopped, no getUserMedia
\* is pending
Stopped ==
    /\ surface # "TV" /\ Rec.mounted /\ ~Rec.isRecording
    /\ \A s \in SessionIds : sessions[s].acq # "pending"
    /\ \E s \in SessionIds : sessions[s].rec \in {"stopping", "inactive"}

\* C25: after a manual stop, until the next start, no interval is active
\* and the elapsed count does not change (but for a reset to zero by a
\* discard or a file upload).
C25_StoppedTimerHalted ==
    [][ Stopped => (NoActiveTimer /\ Elapsed' \in {Elapsed, 0}) ]_vars

\* C26: no recording surface holds an artifact while isRecording is true.
C26_ArtifactOnlyWhenStopped ==
    surface # "TV" => ~(Rec.isRecording /\ ~Rec.audioBlob.isNull)

\* C27: the parts of the artifact of a recording surface all come from one
\* session (or are the bytes of one uploaded file).
C27_ArtifactOfOneSession ==
    surface # "TV" =>
        \A i, j \in 1..Len(Rec.audioBlob.parts) :
            Rec.audioBlob.parts[i] = Rec.audioBlob.parts[j]

\* C28: in InterviewMode an attempt starts with the upload request; the
\* evaluate request is in flight only with the file reference that the
\* upload returned; an upload that fails ends the attempt with a failure.
C28_EvaluateAfterUpload ==
    [][ /\ \A i \in 1..Len(subs') :
              /\ surface = "IM" /\ i > Len(subs) => subs'[i].pc = "upload"
              /\ subs'[i].pc = "evaluate" => subs'[i].file_uuid = "uuid"
        /\ \A i \in 1..Len(subs) :
              subs[i].pc = "upload" /\ subs'[i].pc = "done"
                  => subs'[i].outcome = "failure" ]_vars

\* C29: no MediaRecorder of a surface is recording while an audio element
\* of the surface is playing.
C29_NoRecordingWhilePlaying == ~(Recording /\ Playing # {})

\* a discard handler runs: the artifact the surface held is dropped
DiscardNow ==
    /\ surface \in {"IM", "CFV"}
    /\ ~Rec.audioBlob.isNull /\ Rec'.audioBlob.isNull

\* C30: the step of handleReset, confirmDelete or deleteRecording leaves the
\* surface Idle with everything released.
C30_DiscardReturnsToIdle == [][ DiscardNow => IdleReleased' ]_vars

\* a stored payload has been rendered
Rendered ==
    /\ call.fn \in {"InterviewMode", "ConversationalFeedbackViewer"}
    /\ call.pc = "done"
\* the raw criterion entries of the rendered payload
RawCriteria ==
    IF call.fn = "InterviewMode" THEN call.arg.scores.items
    ELSE call.arg.criteriaScores.items
\* the optional parts of the rendered payload
OptionalParts ==
    IF call.fn = "InterviewMode"
    THEN <<call.arg.actionable_tips,
           IF call.arg.speech_analysis THEN Present(1) ELSE Absent>>
    ELSE <<call.arg.strengths, call.arg.improvements,
           call.arg.deliverySuggestions>>
\* how many entries of each optional part the render shows
ShownParts ==
    IF call.fn = "InterviewMode" THEN <<call.res.tips>>
    ELSE <<call.res.strengths, call.res.improvements,
           call.res.deliverySuggestions>>

\* C22: for a payload with all its optional parts, the render of either
\* component shows one entry per raw criterion entry, of either shape, with
\* the score and the feedback of the raw entry, and with the maximum 5 for
\* an entry that has no maxScore.
C22_BothShapesProjected ==
    (Rendered /\ \A k \in 1..Len(OptionalParts) : OptionalParts[k].present)
    => /\ ~call.res.threw
       /\ Len(call.res.criteria) = Len(RawCriteria)
       /\ \A i \in 1..Len(RawCriteria) :
             /\ call.res.criteria[i].score = RawCriteria[i].score
             /\ call.res.criteria[i].feedback = RawCriteria[i].feedback
             /\ ~RawCriteria[i].hasMaxScore
                    => /\ call.res.criteria[i].hasMax
                       /\ call.res.criteria[i].max = 5

\* C23: the render of a payload whose criterion entries have the shape of
\* the component throws nothing, whichever optional parts are left out, and
\* shows no entry for a part that is left out.
C23_MissingOptionalPartsTolerated ==
    ( /\ Rendered
      /\ \A i \in 1..Len(RawCriteria) :
            IF call.fn = "InterviewMode" THEN RawCriteria[i].hasCriterion
            ELSE RawCriteria[i].hasName /\ RawCriteria[i].hasMaxScore )
    => /\ ~call.res.threw
       /\ \A k \in 1..Len(ShownParts) :
             ~OptionalParts[k].present => ShownParts[k] = 0

\* registerUserWithBackend has returned or thrown
Registered == call.fn = "registerUserWithBackend" /\ call.pc = "done"
\* the call returned the fallback object of its user
FallbackReturned ==
    /\ ~call.res.threw
    /\ call.res.value.json = "object"
    /\ IF call.arg.email # <<>>
       THEN call.res.value.id = "number" /\ call.res.value.n \in 0..999999
       ELSE call.res.value.id = "null"

\* C24 as stated: no error reaches the caller; a request that throws or
\* answers non-2xx gives the fallback object; a 2xx answer gives the body
\* of the answer unchanged.
C24_BodyOfEvery2xx ==
    Registered
    => /\ ~call.res.threw
       /\ call.http \in {"throw", "notOk"} => FallbackReturned
       /\ call.http = "ok" => call.res.value = call.body

\* C24: no error reaches the caller; a request that throws or answers
\* non-2xx, and a 2xx answer whose body is not JSON or is null, give the
\* fallback object; a 2xx answer whose body parses to a value other than
\* null gives that value unchanged.
C24_FallbackOrBody ==
    Registered
    => /\ ~call.res.threw
       /\ ( \/ call.http \in {"throw", "notOk"}
            \/ call.http = "ok" /\ call.body \in {NotJson, JsonNull} )
          => FallbackReturned
       /\ call.http = "ok" /\ call.body \notin {NotJson, JsonNull}
          => call.res.value = call.body

C24_Witness ==
    /\ Registered /\ call.http = "ok" /\ call.body = JsonNull
    /\ call.arg.email # <<>> /\ call.res.value.id = "number"

\* the main session state of the followed surface: the artifact, the
\* elapsed time, the recording flag, the capture sessions and the
\* submission / evaluation state
MainState ==
    <<Rec.audioBlob, Elapsed, Rec.isRecording, sessions, subs,
      im.isSubmitting, im.evaluation, im.audioBlob,
      cfv.isProcessing, cfv.isSubmitted, cfv.feedback, cfv.error>>
\* a step of playAudio, of pauseAudio or of a listener of an audio element
PlaybackStep ==
    \/ AIC_playAudio \/ AIC_pauseAudio
    \/ \E k \in AudioIds : AIC_onended(k) \/ AIC_ontimeupdate(k)
    \/ CFV_playAudio \/ CFV_pauseAudio
    \/ \E k \in AudioIds : CFV_onended(k)
    \/ CFE_playAudio \/ CFE_pauseAudio
    \/ \E k \in AudioIds : CFE_onended(k)

\* C31: playAudio, pauseAudio and the listeners of the audio element leave
\* the main session state as it was.
C31_PlaybackLeavesMainState == [][ PlaybackStep => UNCHANGED MainState ]_vars

C31_Witness ==
    /\ surface = "IM" /\ aic.mounted
    /\ ~aic.audioBlob.isNull /\ aic.recordingTime > 0
    /\ Len(audios) = 1 /\ ~audios[1].playing /\ ~aic.isPlaying
    /\ aic.audioElementRef = 0

\* an audio element of the surface plays to its end
EndedStep ==
    \E k \in AudioIds :
        AIC_onended(k) \/ CFV_onended(k) \/ CFE_onended(k) \/ TV_onended(k)
\* the position the surface reports (the viewer and the editor report none)
ReportedPosition == IF surface = "TV" THEN tv.currentTime ELSE Position

\* C32: when an element ends on a mounted surface, isPlaying becomes false
\* and the reported position becomes zero.
C32_EndedResetsPlayback ==
    [][ (EndedStep /\ Holder.mounted)
        => (~Holder'.isPlaying /\ ReportedPosition' = 0) ]_vars

\* C34: the viewer is never marked submitted while it holds no artifact or
\* while a recording is in progress.
C34_ResultAppliedToItsRecording ==
    ~(cfv.isSubmitted /\ (cfv.audioBlob.isNull \/ cfv.isRecording))

\* C35: the completion callback has been called once for an attempt that
\* succeeded, whose result is then stored, and never for an attempt that
\* failed or is in flight.
C35_CompletionOncePerSuccess ==
    \A i \in 1..Len(subs) :
        /\ subs[i].outcome = "success"
               => subs[i].completions = 1 /\ subs[i].stored
        /\ subs[i].outcome # "success" => subs[i].completions = 0

\* C37: AudioInputComponent never holds an open delete confirmation without
\* an artifact, so that a new artifact never appears with it open.
C37_ConfirmationClosedAfterDiscard ==
    aic.audioBlob.isNull => ~aic.showDeleteConfirmation

\* C33: the cards of the actionable tips are presented in ascending order of
\* priority, whatever the order of the tips in the payload.
C33_TipsInPriorityOrder ==
    (call.fn = "ActionableTips" /\ call.pc = "done")
        => \A i, j \in 1..Len(call.res) :
               i < j => call.res[i].priority <= call.res[j].priority

\* C36: a shown certification calls onComplete at most once, and one with
\* certified false never calls it.
C36_CompleteAtMostOnce ==
    call.fn = "UnderstandingCertification"
        => /\ call.completions <= 1
           /\ ~call.certified => call.completions = 0

\* the criteria of the editor's config
EditorCriteria == call.config.rubric.criteria
\* an edit of the criteria leaves the rubric name, the prompt and
\* maxDuration, and reports the new config through onChange once
CriteriaOnlyAndReported ==
    /\ call'.config.rubric.name = call.config.rubric.name
    /\ call'.config.prompt = call.config.prompt
    /\ call'.config.maxDuration = call.config.maxDuration
    /\ call.hasOnChange
           => /\ call'.onChangeCalls = call.onChangeCalls + 1
              /\ call'.reported = call'.config

\* C38: addCriterion appends one criterion at the end, removeCriterion(i)
\* removes the criterion at index i only, updateCriterion(i, c) replaces
\* index i only; each leaves the other criteria, the rubric name, the prompt
\* and maxDuration as they were and calls onChange once with the new config.
C38_CriterionEditsFramed ==
    [][ /\ CFE_addCriterion
            => /\ Len(EditorCriteria') = Len(EditorCriteria) + 1
               /\ SubSeq(EditorCriteria', 1, Len(EditorCriteria))
                      = EditorCriteria
               /\ CriteriaOnlyAndReported
        /\ \A index \in CriterionIndices :
             /\ CFE_removeCriterion(index)
                  => /\ EditorCriteria'
                          = SubSeq(EditorCriteria, 1, index)
                            \o SubSeq(EditorCriteria, index + 2,
                                      Len(EditorCriteria))
                     /\ CriteriaOnlyAndReported
             /\ \A criterion \in CriterionEdits(index) :
                  CFE_updateCriterion(index, criterion)
                      => /\ Len(EditorCriteria') = Len(EditorCriteria)
                         /\ \A k \in 1..Len(EditorCriteria) :
                                EditorCriteria'[k]
                                    = IF k = index + 1 THEN criterion
                                      ELSE EditorCriteria[k]
                         /\ CriteriaOnlyAndReported ]_vars

C38_Witness ==
    /\ call.fn = "ConversationalFeedbackEditor" /\ call.pc = "ready"
    /\ call.hasOnChange /\ call.onChangeCalls = 3
    /\ call.reported = call.config
    /\ Len(EditorCriteria) = 4
    /\ EditorCriteria[1].name = "Content Quality"
    /\ EditorCriteria[4].name = "Pace"
    /\ EditorCriteria[4].description = "Description of this criterion"

\* the config that hasChanges is meant to compare with: initialConfig, or
\* the initial config when none was supplied
EditorBaseline ==
    IF call.initialConfig.defined THEN call.initialConfig.value
    ELSE CFE_DefaultConfig

\* C39: hasChanges() of the mounted editor answers true exactly when the
\* config differs from initialConfig (from the initial config when none was
\* supplied), so it answers false while no edit was made.
C39_HasChangesIffEdited ==
    (call.fn = "ConversationalFeedbackEditor" /\ call.res.asked)
        => (call.res.value <=> (call.config # EditorBaseline))

\* C40: the fallback id of a non-empty email is an integer in 0..999999,
\* also when the hash leaves the 32 bits or is negative, and it is the same
\* for the same email whichever failure led to the fallback.
C40_FallbackIdInRange ==
    ( /\ Registered /\ call.arg.email # <<>>
      /\ \/ call.http \in {"throw", "notOk"}
         \/ call.body \in {NotJson, JsonNull} )
        => /\ call.res.value.id = "number"
           /\ call.res.value.n \in 0..999999
           /\ call.res.value.n = FallbackId(call.arg.email)

C40_Witness ==
    /\ Registered /\ call.http = "notOk"
    /\ Len(call.arg.email) = MaxEmailLen
    /\ WideNegative(EmailHash(Wide(0, 0), call.arg.email))
    /\ ~WideIsInt32(EmailHash(Wide(0, 0), call.arg.email))
    /\ call.res.value.id = "number"

====
